---- MODULE Spec2Model ----
(***************************************************************************)
(* A model of package check (github.com/gonutz/check): the assertion       *)
(* helpers Eq/Neq/EqEps/NeqEps/EqExact/NeqExact and the comparator          *)
(* deepEqual / deepValueEqual behind them (src/check.go, lines 1..485).     *)
(*                                                                         *)
(* Go values are modelled as reflect sees them: a reflect.Value is a        *)
(* record [typ, val, addr], addr = 0 meaning "not addressable" (CanAddr()   *)
(* is false).  References (pointers, slice data pointers, map headers,      *)
(* function values, unsafe pointers) are addresses into the constant heap   *)
(* Mem.  A call's outcome is one of                                         *)
(*    "true", "false"  the boolean deepEqual returns,                       *)
(*    "panic"          a run-time panic raised by reflect or by a type      *)
(*                     assertion,                                           *)
(*    "overflow"       the recursion does not end (Go aborts the program    *)
(*                     with "stack overflow").                              *)
(***************************************************************************)
EXTENDS Integers, Sequences, FiniteSets, TLC

----------------------------------------------------------------------------
(* 64-bit integers.  TLC's integers are 32 bits wide, so a uint64 is four  *)
(* 16-bit limbs <<l3, l2, l1, l0>>, most significant first, and an int64   *)
(* is a sign and a magnitude [neg, mag] (neg implies mag # 0).             *)

LimbBase == 2^16

U64(n) == <<0, 0, 0, n>>

Two63 == <<2^15, 0, 0, 0>>

Max63 == <<2^15 - 1, LimbBase - 1, LimbBase - 1, LimbBase - 1>>

Max64 == <<LimbBase - 1, LimbBase - 1, LimbBase - 1, LimbBase - 1>>

I64(n) == [neg |-> n < 0, mag |-> U64(IF n < 0 THEN -n ELSE n)]

(* 2^64 - m for 0 < m <= 2^64 - 1: invert every limb and add one.          *)
Neg64(m) ==
  LET inv == [i \in 1..4 |-> LimbBase - 1 - m[i]]
      s0 == inv[4] + 1
      s1 == inv[3] + (s0 \div LimbBase)
      s2 == inv[2] + (s1 \div LimbBase)
      s3 == inv[1] + (s2 \div LimbBase)
  IN  <<s3 % LimbBase, s2 % LimbBase, s1 % LimbBase, s0 % LimbBase>>

(* Go's conversion uint64(i) of an int64 i: the two's complement pattern.  *)
Uint64OfInt64(i) == IF i.neg THEN Neg64(i.mag) ELSE i.mag

(* A magnitude below 2^28 as a TLC integer.                                *)
IsSmallMag(m) == m[1] = 0 /\ m[2] = 0 /\ m[3] < 2^12

SmallMag(m) == m[3] * LimbBase + m[4]

----------------------------------------------------------------------------
(* float64.  A finite float is a whole number n of quanta of 1/FQ; on this *)
(* grid Go's subtraction is exact.  "big"/"nbig" is a finite value of      *)
(* magnitude at least 2^53 (what a large integer converts to), "unknown" a *)
(* value outside the modelled range, which no modelled call produces.      *)

FQ == 10^6

F(n) == [c |-> "fin", n |-> n]

NaN == [c |-> "nan", n |-> 0]

PInf == [c |-> "pinf", n |-> 0]

NInf == [c |-> "ninf", n |-> 0]

Big == [c |-> "big", n |-> 0]

NBig == [c |-> "nbig", n |-> 0]

Unknown == [c |-> "unknown", n |-> 0]

(* The largest whole number whose float is kept exactly on the grid.       *)
GridMax == (2^30) \div FQ

(* float64(m) of a magnitude m; values of 2^53 and more round to a float   *)
(* of at least 2^53.                                                       *)
Float64OfMag(m, neg) ==
  IF IsSmallMag(m) /\ SmallMag(m) <= GridMax
    THEN F(IF neg THEN -(SmallMag(m) * FQ) ELSE SmallMag(m) * FQ)
    ELSE IF m[1] >= 32 THEN (IF neg THEN NBig ELSE Big)
    ELSE Unknown

(* IEEE 754 a - b.                                                         *)
FloatSub(a, b) ==
  CASE a.c = "unknown" \/ b.c = "unknown" -> Unknown
    [] a.c = "nan" \/ b.c = "nan" -> NaN
    [] a.c = "pinf" -> IF b.c = "pinf" THEN NaN ELSE PInf
    [] a.c = "ninf" -> IF b.c = "ninf" THEN NaN ELSE NInf
    [] b.c = "pinf" -> NInf
    [] b.c = "ninf" -> PInf
    [] a.c = "fin" /\ b.c = "fin" -> F(a.n - b.n)
    [] a.c = "big" /\ b.c \in {"fin", "nbig"} -> Big
    [] a.c = "nbig" /\ b.c \in {"fin", "big"} -> NBig
    [] a.c = "fin" /\ b.c = "big" -> NBig
    [] a.c = "fin" /\ b.c = "nbig" -> Big
    [] OTHER -> Unknown

(* x < 0 on floats (false for NaN).                                        *)
FloatNegative(x) == x.c \in {"ninf", "nbig"} \/ (x.c = "fin" /\ x.n < 0)

(* -x.                                                                     *)
FloatNeg(x) ==
  CASE x.c = "fin" -> F(-x.n)
    [] x.c = "pinf" -> NInf
    [] x.c = "ninf" -> PInf
    [] x.c = "big" -> NBig
    [] x.c = "nbig" -> Big
    [] OTHER -> x

(* a <= b on floats; every finite grid value is below 2^53.                *)
FloatLE(a, b) ==
  CASE a.c = "nan" \/ b.c = "nan" -> FALSE
    [] a.c = "unknown" \/ b.c = "unknown" -> FALSE
    [] a.c = "ninf" \/ b.c = "pinf" -> TRUE
    [] a.c = "pinf" \/ b.c = "ninf" -> FALSE
    [] a.c = "fin" /\ b.c = "fin" -> a.n <= b.n
    [] a.c = "nbig" -> TRUE
    [] b.c = "big" -> TRUE
    [] OTHER -> FALSE

abs(x) == IF FloatNegative(x) THEN FloatNeg(x) ELSE x

MutFloatEqNoNaN(a, b, eps) ==
  \/ a.c = "pinf" /\ b.c = "pinf"
  \/ a.c = "ninf" /\ b.c = "ninf"
  \/ FloatLE(abs(FloatSub(a, b)), eps)

MutFloatEqOnlyAtEps(a, b, eps) ==
  \/ a.c = "pinf" /\ b.c = "pinf"
  \/ a.c = "ninf" /\ b.c = "ninf"
  \/ a.c = "nan" /\ b.c = "nan"
  \/ abs(FloatSub(a, b)) = eps

MutFloatEqStrict(a, b, eps) ==
  \/ a.c = "pinf" /\ b.c = "pinf"
  \/ a.c = "ninf" /\ b.c = "ninf"
  \/ a.c = "nan" /\ b.c = "nan"
  \/ (FloatLE(abs(FloatSub(a, b)), eps) /\ abs(FloatSub(a, b)) # eps)

floatEq(a, b, eps) ==
  \/ a.c = "pinf" /\ b.c = "pinf"
  \/ a.c = "ninf" /\ b.c = "ninf"
  \/ a.c = "nan" /\ b.c = "nan"
  \/ FloatLE(abs(FloatSub(a, b)), eps)

----------------------------------------------------------------------------
(* Types.  A type is its Go name; Kind, Elem, Len and Fields are what      *)
(* reflect.Type reports for it.  myRune is "type myRune int32", Node is    *)
(* "struct { val int; next *Node }", S1 is "struct { a int }", box is       *)
(* "struct { i interface{} }", Deep is                                     *)
(* "struct { m map[int][]int; a [2]int; s S1 }", aaa, bbb and aer are the  *)
(* types of check_test.go.                                                 *)

Kind(t) ==
  CASE t = "int" -> "Int"
    [] t = "int8" -> "Int8"
    [] t = "int32" -> "Int32"
    [] t = "myRune" -> "Int32"
    [] t = "int64" -> "Int64"
    [] t = "uint8" -> "Uint8"
    [] t = "uint32" -> "Uint32"
    [] t = "uint64" -> "Uint64"
    [] t = "uintptr" -> "Uintptr"
    [] t = "float32" -> "Float32"
    [] t = "float64" -> "Float64"
    [] t = "complex64" -> "Complex64"
    [] t = "complex128" -> "Complex128"
    [] t = "bool" -> "Bool"
    [] t = "string" -> "String"
    [] t \in {"[]uint8", "[]int32", "[]myRune", "[]int", "[]interface {}"} -> "Slice"
    [] t \in {"[1]uint8", "[3]uint8", "[1]int32", "[3]int32", "[3]myRune",
              "[2]int", "[3]int", "[1]interface {}"} -> "Array"
    [] t \in {"map[int]string", "map[int]interface {}", "map[int][]int",
              "map[float64]int"} -> "Map"
    [] t \in {"*int", "*Node", "*unsafe.Pointer"} -> "Ptr"
    [] t \in {"Node", "S1", "aaa", "bbb", "aer", "box", "Deep"} -> "Struct"
    [] t \in {"interface {}", "interface { a() }"} -> "Interface"
    [] t = "func()" -> "Func"
    [] t = "unsafe.Pointer" -> "UnsafePointer"
    [] OTHER -> "Invalid"

Elem(t) ==
  CASE t \in {"[]uint8", "[1]uint8", "[3]uint8"} -> "uint8"
    [] t \in {"[]int32", "[1]int32", "[3]int32"} -> "int32"
    [] t \in {"[]myRune", "[3]myRune"} -> "myRune"
    [] t \in {"[]int", "[2]int", "[3]int", "*int"} -> "int"
    [] t \in {"[]interface {}", "[1]interface {}", "map[int]interface {}"} -> "interface {}"
    [] t = "map[int]string" -> "string"
    [] t = "map[int][]int" -> "[]int"
    [] t = "map[float64]int" -> "int"
    [] t = "*Node" -> "Node"
    [] t = "*unsafe.Pointer" -> "unsafe.Pointer"
    [] OTHER -> "invalid"

(* t.Key() of a map type.                                                  *)
Key(t) == IF t = "map[float64]int" THEN "float64" ELSE "int"

ArrayLen(t) ==
  CASE t \in {"[1]uint8", "[1]int32", "[1]interface {}"} -> 1
    [] t = "[2]int" -> 2
    [] t \in {"[3]uint8", "[3]int32", "[3]myRune", "[3]int"} -> 3
    [] OTHER -> 0

Fields(t) ==
  CASE t = "Node" -> <<"int", "*Node">>
    [] t = "S1" -> <<"int">>
    [] t = "aer" -> <<"int">>
    [] t = "aaa" -> <<"bbb", "unsafe.Pointer", "interface { a() }">>
    [] t = "box" -> <<"interface {}">>
    [] t = "Deep" -> <<"map[int][]int", "[2]int", "S1">>
    [] OTHER -> <<>>

(* unsafe.Sizeof in 8-byte words (a scalar takes one word).                *)
RECURSIVE Sizeof(_)
RECURSIVE SizeofFields(_, _)
SizeofFields(fs, n) ==
  IF n = 0 THEN 0 ELSE SizeofFields(fs, n - 1) + Sizeof(fs[n])

Sizeof(t) ==
  CASE Kind(t) = "Array" -> ArrayLen(t) * Sizeof(Elem(t))
    [] Kind(t) = "Struct" -> SizeofFields(Fields(t), Len(Fields(t)))
    [] Kind(t) = "Slice" -> 3
    [] Kind(t) \in {"String", "Interface", "Complex128"} -> 2
    [] OTHER -> 1

(* The offset of field i (1-based) of struct type t.                       *)
FieldOffset(t, i) == SizeofFields(Fields(t), i - 1)

----------------------------------------------------------------------------
(* Values.  The payload of a reflect.Value, by kind:                        *)
(*   integers   [neg, mag]          floats     a float                      *)
(*   complex    [re, im]            bool       [b]                          *)
(*   string     [s], s the bytes    array      [e], e the elements          *)
(*   struct     [f], f the fields   slice      [p, len], p the data pointer *)
(*   pointer, map, func, unsafe.Pointer   [p], p = 0 for nil                *)
(*   interface  [nil, dt, dv], the dynamic type and payload                 *)

PInt(n) == I64(n)

PUint(m) == [neg |-> FALSE, mag |-> m]

PComplex(re, im) == [re |-> re, im |-> im]

PBool(b) == [b |-> b]

PStr(s) == [s |-> s]

PArr(es) == [e |-> es]

PStruct(fs) == [f |-> fs]

PRef(p) == [p |-> p]

PSlice(p, n) == [p |-> p, len |-> n]

PIface(t, v) == [nil |-> FALSE, dt |-> t, dv |-> v]

NilIface == [nil |-> TRUE, dt |-> "invalid", dv |-> PRef(0)]

(* The address Go gives every zero-size allocation, an empty slice's data.  *)
ZeroBase == 2^3

sAbc == <<97, 98, 99>>

sABC == <<65, 66, 67>>

sDef == <<100, 101, 102>>

sDEF == <<68, 69, 70>>

(* U+FFFD, the replacement character, in UTF-8.                            *)
RuneError == <<239, 191, 189>>

Bytes3(s) == PArr(<<PUint(U64(s[1])), PUint(U64(s[2])), PUint(U64(s[3]))>>)

Runes3(s) == PArr(<<PInt(s[1]), PInt(s[2]), PInt(s[3])>>)

Ints3(x, y, z) == PArr(<<PInt(x), PInt(y), PInt(z)>>)

Cell(t, v) == [typ |-> t, val |-> v]

MapObj(t, ks, vs) == [typ |-> t, val |-> [keys |-> ks, vals |-> vs]]

(* The heap the operands point into: address :> the object allocated       *)
(* there.  Slices point at the start of their backing array and pointers   *)
(* at the start of an object.  Objects 60/62 and 76/77 and the Node        *)
(* objects 80..88 are self-referential.                                    *)
Mem ==
  16 :> Cell("int", PInt(0)) @@
  17 :> Cell("int", PInt(0)) @@
  18 :> Cell("int", PInt(7)) @@
  20 :> Cell("[3]int", Ints3(1, 2, 3)) @@
  24 :> Cell("[3]int", Ints3(1, 2, 3)) @@
  28 :> Cell("[3]int", Ints3(1, 2, 4)) @@
  32 :> Cell("[2]int", PArr(<<PInt(1), PInt(2)>>)) @@
  36 :> Cell("[3]uint8", Bytes3(sAbc)) @@
  40 :> Cell("[3]uint8", Bytes3(sABC)) @@
  44 :> Cell("[3]int32", Runes3(sAbc)) @@
  48 :> Cell("[1]int32", PArr(<<PInt(55296)>>)) @@
  49 :> Cell("[1]int32", PArr(<<PInt(56320)>>)) @@
  52 :> Cell("[3]myRune", Runes3(sAbc)) @@
  56 :> Cell("[1]interface {}", PArr(<<PIface("float64", F(4 * FQ))>>)) @@
  58 :> Cell("[1]interface {}", PArr(<<PIface("int", PInt(4))>>)) @@
  60 :> Cell("[1]interface {}", PArr(<<PIface("[]interface {}", PSlice(60, 1))>>)) @@
  62 :> Cell("[1]interface {}", PArr(<<PIface("[]interface {}", PSlice(62, 1))>>)) @@
  70 :> MapObj("map[int]string", <<PInt(1)>>, <<PStr(sAbc)>>) @@
  71 :> MapObj("map[int]string", <<PInt(1), PInt(2)>>, <<PStr(sAbc), PStr(sDef)>>) @@
  72 :> MapObj("map[int]string", <<PInt(2), PInt(1)>>, <<PStr(sDef), PStr(sAbc)>>) @@
  73 :> MapObj("map[int]string", <<PInt(1), PInt(2)>>, <<PStr(sAbc), PStr(sDEF)>>) @@
  74 :> MapObj("map[int]string", <<>>, <<>>) @@
  76 :> MapObj("map[int]interface {}", <<PInt(0)>>,
               <<PIface("map[int]interface {}", PRef(76))>>) @@
  77 :> MapObj("map[int]interface {}", <<PInt(0)>>,
               <<PIface("map[int]interface {}", PRef(77))>>) @@
  80 :> Cell("Node", PStruct(<<PInt(1), PRef(80)>>)) @@
  82 :> Cell("Node", PStruct(<<PInt(1), PRef(82)>>)) @@
  84 :> Cell("Node", PStruct(<<PInt(2), PRef(84)>>)) @@
  86 :> Cell("Node", PStruct(<<PInt(1), PRef(88)>>)) @@
  88 :> Cell("Node", PStruct(<<PInt(1), PRef(86)>>)) @@
  90 :> Cell("S1", PStruct(<<PInt(0)>>)) @@
  91 :> Cell("S1", PStruct(<<PInt(111)>>)) @@
  94 :> Cell("unsafe.Pointer", PRef(90)) @@
  100 :> MapObj("map[int][]int", <<PInt(1)>>, <<PSlice(20, 3)>>) @@
  101 :> MapObj("map[int][]int", <<PInt(1)>>, <<PSlice(24, 3)>>) @@
  102 :> MapObj("map[int][]int", <<PInt(1)>>, <<PSlice(28, 3)>>) @@
  104 :> MapObj("map[float64]int", <<NaN>>, <<PInt(1)>>) @@
  105 :> MapObj("map[float64]int", <<NaN>>, <<PInt(1)>>)

----------------------------------------------------------------------------
(* The operands of the modelled calls: interface{} arguments, each with a  *)
(* name for the Go expression it stands for.                               *)

Op(name, t, v) == [name |-> name, nil |-> FALSE, dt |-> t, dv |-> v]

NilOperand == [name |-> "nil", nil |-> TRUE, dt |-> "invalid", dv |-> PRef(0)]

Operands ==
  << NilOperand,
     Op("int(0)", "int", PInt(0)),
     Op("int(4)", "int", PInt(4)),
     Op("int(-4)", "int", PInt(-4)),
     Op("int8(5)", "int8", PInt(5)),
     Op("int8(-1)", "int8", PInt(-1)),
     Op("int64(-1)", "int64", PInt(-1)),
     Op("int64(-2^63)", "int64", [neg |-> TRUE, mag |-> Two63]),
     Op("uint64(5)", "uint64", PUint(U64(5))),
     Op("uint64(4)", "uint64", PUint(U64(4))),
     Op("uint64(2^63)", "uint64", PUint(Two63)),
     Op("uint64(2^64-1)", "uint64", PUint(Max64)),
     Op("uintptr(5)", "uintptr", PUint(U64(5))),
     Op("float64(1)", "float64", F(FQ)),
     Op("float64(1.000001)", "float64", F(FQ + 1)),
     Op("float64(1.000002)", "float64", F(FQ + 2)),
     Op("float64(4)", "float64", F(4 * FQ)),
     Op("float64(-4)", "float64", F(-4 * FQ)),
     Op("float32(4)", "float32", F(4 * FQ)),
     Op("NaN", "float64", NaN),
     Op("+Inf", "float64", PInf),
     Op("-Inf", "float64", NInf),
     Op("complex128(1+2i)", "complex128", PComplex(F(FQ), F(2 * FQ))),
     Op("complex128(1+456i)", "complex128", PComplex(F(FQ), F(456 * FQ))),
     Op("complex64(1+2i)", "complex64", PComplex(F(FQ), F(2 * FQ))),
     Op("complex128(NaN+Inf i)", "complex128", PComplex(NaN, PInf)),
     Op("true", "bool", PBool(TRUE)),
     Op("false", "bool", PBool(FALSE)),
     Op("string()", "string", PStr(<<>>)),
     Op("string(abc)", "string", PStr(sAbc)),
     Op("string(ABC)", "string", PStr(sABC)),
     Op("string(U+FFFD)", "string", PStr(RuneError)),
     Op("[]byte(abc)", "[]uint8", PSlice(36, 3)),
     Op("[]byte(nil)", "[]uint8", PSlice(0, 0)),
     Op("[]byte{}", "[]uint8", PSlice(ZeroBase, 0)),
     Op("[]rune(abc)", "[]int32", PSlice(44, 3)),
     Op("[]rune{0xD800}", "[]int32", PSlice(48, 1)),
     Op("[]rune{0xDC00}", "[]int32", PSlice(49, 1)),
     Op("[]myRune(abc)", "[]myRune", PSlice(52, 3)),
     Op("[]int{1,2,3}", "[]int", PSlice(20, 3)),
     Op("[]int{1,2,3}'", "[]int", PSlice(24, 3)),
     Op("[]int{1,2,4}", "[]int", PSlice(28, 3)),
     Op("[]int{1,2}", "[]int", PSlice(32, 2)),
     Op("[]int(nil)", "[]int", PSlice(0, 0)),
     Op("[]int{}", "[]int", PSlice(ZeroBase, 0)),
     Op("[2]int{1,2}", "[2]int", PArr(<<PInt(1), PInt(2)>>)),
     Op("[2]int{1,3}", "[2]int", PArr(<<PInt(1), PInt(3)>>)),
     Op("[3]int{0,0,0}", "[3]int", Ints3(0, 0, 0)),
     Op("[]interface{}{4.0}", "[]interface {}", PSlice(56, 1)),
     Op("[]interface{}{4}", "[]interface {}", PSlice(58, 1)),
     Op("L1", "[]interface {}", PSlice(60, 1)),
     Op("L2", "[]interface {}", PSlice(62, 1)),
     Op("nilMap", "map[int]string", PRef(0)),
     Op("m1", "map[int]string", PRef(70)),
     Op("m2", "map[int]string", PRef(71)),
     Op("m22", "map[int]string", PRef(72)),
     Op("m3", "map[int]string", PRef(73)),
     Op("emptyMap", "map[int]string", PRef(74)),
     Op("M1", "map[int]interface {}", PRef(76)),
     Op("M2", "map[int]interface {}", PRef(77)),
     Op("S1{0}", "S1", PStruct(<<PInt(0)>>)),
     Op("S1{111}", "S1", PStruct(<<PInt(111)>>)),
     Op("aaa{}", "aaa", PStruct(<<PStruct(<<>>), PRef(0), NilIface>>)),
     Op("aaa{u,aer{1}}", "aaa",
        PStruct(<<PStruct(<<>>), PRef(90), PIface("aer", PStruct(<<PInt(1)>>))>>)),
     Op("aaa{u,aer{2}}", "aaa",
        PStruct(<<PStruct(<<>>), PRef(90), PIface("aer", PStruct(<<PInt(2)>>))>>)),
     Op("deep", "Deep",
        PStruct(<<PRef(100), PArr(<<PInt(1), PInt(2)>>), PStruct(<<PInt(0)>>)>>)),
     Op("deep'", "Deep",
        PStruct(<<PRef(101), PArr(<<PInt(1), PInt(2)>>), PStruct(<<PInt(0)>>)>>)),
     Op("deep.m[1][2]=4", "Deep",
        PStruct(<<PRef(102), PArr(<<PInt(1), PInt(2)>>), PStruct(<<PInt(0)>>)>>)),
     Op("deep.a[1]=3", "Deep",
        PStruct(<<PRef(101), PArr(<<PInt(1), PInt(3)>>), PStruct(<<PInt(0)>>)>>)),
     Op("deep.s.a=111", "Deep",
        PStruct(<<PRef(101), PArr(<<PInt(1), PInt(2)>>), PStruct(<<PInt(111)>>)>>)),
     Op("nanMap1", "map[float64]int", PRef(104)),
     Op("nanMap2", "map[float64]int", PRef(105)),
     Op("box{abc}", "box", PStruct(<<PIface("string", PStr(sAbc))>>)),
     Op("box{[]rune(abc)}", "box", PStruct(<<PIface("[]int32", PSlice(44, 3))>>)),
     Op("&i", "*int", PRef(16)),
     Op("&j", "*int", PRef(17)),
     Op("&k", "*int", PRef(18)),
     Op("(*int)(nil)", "*int", PRef(0)),
     Op("r1", "*Node", PRef(80)),
     Op("r2", "*Node", PRef(82)),
     Op("r3", "*Node", PRef(84)),
     Op("n4", "*Node", PRef(86)),
     Op("n5", "*Node", PRef(88)),
     Op("&p1", "*unsafe.Pointer", PRef(94)),
     Op("p1", "unsafe.Pointer", PRef(90)),
     Op("p2", "unsafe.Pointer", PRef(91)),
     Op("f1", "func()", PRef(200)),
     Op("f2", "func()", PRef(201)),
     Op("nilF", "func()", PRef(0)) >>

NumOperands == Len(Operands)

(* The epsilons of the modelled calls.                                     *)
Epsilons == << F(0), F(1), F(-1), PInf, NaN >>

----------------------------------------------------------------------------
(* package reflect, as far as check.go uses it.  A Value is                *)
(* [typ, val, addr, ro]: addr # 0 iff CanAddr(), ro iff the value was      *)
(* reached through an unexported struct field (all struct fields of the    *)
(* modelled types are unexported).                                         *)

Invalid == [typ |-> "invalid", val |-> PRef(0), addr |-> 0, ro |-> FALSE]

Val(t, v, a, ro) == [typ |-> t, val |-> v, addr |-> a, ro |-> ro]

ValueOf(x) == IF x.nil THEN Invalid ELSE Val(x.dt, x.dv, 0, FALSE)

IsValid(v) == v.typ # "invalid"

CanAddr(v) == v.addr # 0

IsNil(v) == IF Kind(v.typ) = "Interface" THEN v.val.nil ELSE v.val.p = 0

Pointer(v) == v.val.p

LenOf(v) ==
  CASE Kind(v.typ) = "Slice" -> v.val.len
    [] Kind(v.typ) = "Array" -> ArrayLen(v.typ)
    [] Kind(v.typ) = "Map" -> IF v.val.p = 0 THEN 0 ELSE Len(Mem[v.val.p].val.keys)
    [] OTHER -> Len(v.val.s)

(* v.Index(i), i from 0: an array's element is addressable iff the array   *)
(* is, a slice's element always.                                           *)
Index(v, i) ==
  IF Kind(v.typ) = "Array"
    THEN Val(Elem(v.typ), v.val.e[i + 1],
             IF v.addr # 0 THEN v.addr + i * Sizeof(Elem(v.typ)) ELSE 0, v.ro)
    ELSE Val(Elem(v.typ), Mem[v.val.p].val.e[i + 1],
             v.val.p + i * Sizeof(Elem(v.typ)), v.ro)

NumField(v) == Len(Fields(v.typ))

(* v.Field(i), i from 1 here.                                              *)
Field(v, i) ==
  Val(Fields(v.typ)[i], v.val.f[i],
      IF v.addr # 0 THEN v.addr + FieldOffset(v.typ, i) ELSE 0, TRUE)

(* v.Elem() of an interface or a pointer; the zero Value for nil.          *)
ElemOf(v) ==
  IF Kind(v.typ) = "Interface"
    THEN IF v.val.nil THEN Invalid ELSE Val(v.val.dt, v.val.dv, 0, v.ro)
    ELSE IF v.val.p = 0 THEN Invalid
         ELSE Val(Elem(v.typ), Mem[v.val.p].val, v.val.p, v.ro)

(* v.MapKeys(), in the order the map object lists them.                    *)
MapKeys(v) == IF v.val.p = 0 THEN <<>> ELSE Mem[v.val.p].val.keys

(* v.MapIndex(k): a copy of the element, the zero Value if k is absent.    *)
(* A NaN key is never found: the map compares keys with ==.                *)
MapIndex(v, k) ==
  IF v.val.p = 0 THEN Invalid
  ELSE LET m == Mem[v.val.p].val
           hits == IF Kind(Key(v.typ)) = "Float64" /\ k.c = "nan" THEN {}
                   ELSE {i \in 1..Len(m.keys) : m.keys[i] = k}
       IN  IF hits = {} THEN Invalid
           ELSE Val(Elem(v.typ), m.vals[CHOOSE i \in hits : TRUE], 0, v.ro)

----------------------------------------------------------------------------
(* check.go's helpers.                                                     *)

isSignedInteger(v) == Kind(v.typ) \in {"Int", "Int8", "Int16", "Int32", "Int64"}

isUnsignedInteger(v) ==
  Kind(v.typ) \in {"Uint", "Uint8", "Uint16", "Uint32", "Uint64", "Uintptr"}

isInteger(v) == isSignedInteger(v) \/ isUnsignedInteger(v)

isFloat(v) == Kind(v.typ) \in {"Float32", "Float64"}

isComplex(v) == Kind(v.typ) \in {"Complex64", "Complex128"}

toUint64(v) == IF isSignedInteger(v) THEN Uint64OfInt64(v.val) ELSE v.val.mag

MutIntToFloat64Unsigned(v) == Float64OfMag(toUint64(v), FALSE)

intToFloat64(v) ==
  IF isSignedInteger(v) THEN Float64OfMag(v.val.mag, v.val.neg)
  ELSE Float64OfMag(v.val.mag, FALSE)

canBeString(v) ==
  \/ Kind(v.typ) = "String"
  \/ /\ Kind(v.typ) = "Slice"
     /\ Kind(Elem(v.typ)) \in {"Uint8", "Int32"}

(* utf8.EncodeRune, which string([]rune) applies to every element: a       *)
(* surrogate or a value outside 0..0x10FFFF becomes U+FFFD.                *)
EncodeRune(r) ==
  IF r.neg \/ ~IsSmallMag(r.mag) THEN RuneError
  ELSE LET c == SmallMag(r.mag) IN
    IF c < 128 THEN <<c>>
    ELSE IF c < 2048 THEN <<192 + (c \div 64), 128 + (c % 64)>>
    ELSE IF (c >= 55296 /\ c <= 57343) \/ c > 1114111 THEN RuneError
    ELSE IF c < 65536
      THEN <<224 + (c \div 4096), 128 + ((c \div 64) % 64), 128 + (c % 64)>>
      ELSE <<240 + (c \div 262144), 128 + ((c \div 4096) % 64),
             128 + ((c \div 64) % 64), 128 + (c % 64)>>

RECURSIVE SliceBytes(_, _)
SliceBytes(v, n) ==
  IF n = 0 THEN <<>>
  ELSE SliceBytes(v, n - 1) \o <<SmallMag(Index(v, n - 1).val.mag)>>

RECURSIVE RuneBytes(_, _)
RuneBytes(v, n) ==
  IF n = 0 THEN <<>>
  ELSE RuneBytes(v, n - 1) \o EncodeRune(Index(v, n - 1).val)

(* toBytes: [ok, b]; ok is false when the type assertion                   *)
(* v.Interface().([]rune) panics (the value comes from an unexported field *)
(* or its type is not exactly []int32).                                    *)
toBytes(v) ==
  IF Kind(v.typ) = "String" THEN [ok |-> TRUE, b |-> v.val.s]
  ELSE IF Kind(Elem(v.typ)) = "Uint8" THEN [ok |-> TRUE, b |-> SliceBytes(v, v.val.len)]
  ELSE IF v.ro \/ v.typ # "[]int32" THEN [ok |-> FALSE, b |-> <<>>]
  ELSE [ok |-> TRUE, b |-> RuneBytes(v, v.val.len)]

Bool(b) == IF b THEN "true" ELSE "false"

----------------------------------------------------------------------------
(* deepValueEqual.  A call returns [r, vis]: its outcome and the visited   *)
(* map as the call leaves it (the map is shared by the whole comparison).  *)

(* The deepest recursion followed; a comparison that nests deeper never    *)
(* returns and ends as "overflow".                                         *)
MaxDepth == 12

Ret(r, vis) == [r |-> r, vis |-> vis]

(* Lines 213-224: one operand signed, the other unsigned.                  *)
MutSignedUnsignedNoSignCheck(u, s) == Bool(u.val.mag = Uint64OfInt64(s.val))

signedUnsignedEq(u, s) ==
  IF s.val.neg THEN "false" ELSE Bool(u.val.mag = Uint64OfInt64(s.val))

(* Lines 233-238; the guard tests v1 twice, and v2.Complex() panics on a   *)
(* value that is not complex.                                              *)
complexBranch(v1, v2, eps) ==
  IF ~isComplex(v2) THEN "panic"
  ELSE Bool(floatEq(v1.val.re, v2.val.re, eps) /\ floatEq(v1.val.im, v2.val.im, eps))

(* Lines 239-248: integer against float, the integer made the first.       *)
intFloatBranch(v1, v2, eps) ==
  LET w1 == IF isInteger(v2) THEN v2 ELSE v1
      w2 == IF isInteger(v2) THEN v1 ELSE v2
  IN  IF isInteger(w1) /\ isFloat(w2)
        THEN Bool(floatEq(intToFloat64(w1), w2.val, eps))
        ELSE "false"

(* Lines 206-208.                                                          *)
stringBranch(v1, v2) ==
  LET b1 == toBytes(v1)
      b2 == toBytes(v2)
  IN  IF ~b1.ok \/ ~b2.ok THEN "panic" ELSE Bool(b1.b = b2.b)

(* Lines 205-249: the operands' types differ.                              *)
differentTypes(v1, v2, eps) ==
  IF canBeString(v1) /\ canBeString(v2) THEN stringBranch(v1, v2)
  ELSE IF isInteger(v1) /\ isInteger(v2) THEN
    IF isSignedInteger(v1) # isSignedInteger(v2)
      THEN IF isSignedInteger(v1) THEN signedUnsignedEq(v2, v1)
                                  ELSE signedUnsignedEq(v1, v2)
      ELSE Bool(toUint64(v1) = toUint64(v2))
  ELSE IF isFloat(v1) /\ isFloat(v2) THEN Bool(floatEq(v1.val, v2.val, eps))
  ELSE IF isComplex(v1) /\ isComplex(v1) THEN complexBranch(v1, v2, eps)
  ELSE intFloatBranch(v1, v2, eps)

hard(k) == k \in {"Map", "Slice", "Ptr", "Interface"}

(* Lines 265-275: the visited key of two addressable values.               *)
MutVisitKeyUnordered(v1, v2) == <<v1.addr, v2.addr, v1.typ>>

visitKey(v1, v2) ==
  IF v1.addr > v2.addr THEN <<v2.addr, v1.addr, v1.typ>>
                       ELSE <<v1.addr, v2.addr, v1.typ>>

(* Lines 295-309: what the slice case decides before it looks at elements. *)
sliceHeader(v1, v2) ==
  IF IsNil(v1) /\ LenOf(v2) = 0 THEN "true"
  ELSE IF LenOf(v1) = 0 /\ IsNil(v2) THEN "true"
  ELSE IF IsNil(v1) # IsNil(v2) THEN "false"
  ELSE IF LenOf(v1) # LenOf(v2) THEN "false"
  ELSE IF Pointer(v1) = Pointer(v2) THEN "true"
  ELSE "elements"

(* Lines 334-342: what the map case decides before it looks at entries.    *)
MutMapHeaderNilAsEmpty(v1, v2) ==
  IF LenOf(v1) # LenOf(v2) THEN "false"
  ELSE IF Pointer(v1) = Pointer(v2) \/ LenOf(v1) = 0 THEN "true"
  ELSE "elements"

mapHeader(v1, v2) ==
  IF IsNil(v1) # IsNil(v2) THEN "false"
  ELSE IF LenOf(v1) # LenOf(v2) THEN "false"
  ELSE IF Pointer(v1) = Pointer(v2) THEN "true"
  ELSE "elements"

(* Lines 353-392: the kinds without elements.                              *)
leafEqual(v1, v2, eps) ==
  LET k == Kind(v1.typ) IN
  CASE k = "Func" ->
         IF IsNil(v1) /\ IsNil(v2) THEN "true" ELSE Bool(Pointer(v1) = Pointer(v2))
    [] k = "Bool" -> Bool(v1.val.b = v2.val.b)
    [] isUnsignedInteger(v1) -> Bool(v1.val.mag = v2.val.mag)
    [] isSignedInteger(v1) -> Bool(v1.val = v2.val)
    [] isFloat(v1) -> Bool(floatEq(v1.val, v2.val, eps))
    [] isComplex(v1) ->
         Bool(floatEq(v1.val.re, v2.val.re, eps) /\ floatEq(v1.val.im, v2.val.im, eps))
    [] k = "String" -> Bool(v1.val.s = v2.val.s)
    [] k = "UnsafePointer" -> Bool(Pointer(v1) = Pointer(v2))
    [] OTHER -> "false"

RECURSIVE deepValueEqual(_, _, _, _, _)
RECURSIVE elementsEqual(_, _, _, _, _, _)
RECURSIVE fieldsEqual(_, _, _, _, _, _)
RECURSIVE entriesEqual(_, _, _, _, _, _)

(* The loops of lines 288-292 and 310-314, from index i on.                *)
elementsEqual(v1, v2, eps, visited, depth, i) ==
  IF i >= LenOf(v1) THEN Ret("true", visited)
  ELSE LET r == deepValueEqual(Index(v1, i), Index(v2, i), eps, visited, depth + 1)
       IN  IF r.r # "true" THEN r
           ELSE elementsEqual(v1, v2, eps, r.vis, depth, i + 1)

(* The loop of lines 327-331, from field i on.                             *)
fieldsEqual(v1, v2, eps, visited, depth, i) ==
  IF i > NumField(v1) THEN Ret("true", visited)
  ELSE LET r == deepValueEqual(Field(v1, i), Field(v2, i), eps, visited, depth + 1)
       IN  IF r.r # "true" THEN r
           ELSE fieldsEqual(v1, v2, eps, r.vis, depth, i + 1)

(* The loop of lines 343-351, from the i-th key of v1 on.                  *)
entriesEqual(v1, v2, eps, visited, depth, i) ==
  IF i > Len(MapKeys(v1)) THEN Ret("true", visited)
  ELSE LET k == MapKeys(v1)[i]
           val1 == MapIndex(v1, k)
           val2 == MapIndex(v2, k)
       IN  IF ~IsValid(val1) \/ ~IsValid(val2) THEN Ret("false", visited)
           ELSE LET r == deepValueEqual(val1, val2, eps, visited, depth + 1)
                IN  IF r.r # "true" THEN r
                    ELSE entriesEqual(v1, v2, eps, r.vis, depth, i + 1)

(* Lines 204-396.  v1.Type() panics on the zero Value.                     *)
deepValueEqual(v1, v2, eps, visited, depth) ==
  IF depth > MaxDepth THEN Ret("overflow", visited)
  ELSE IF ~IsValid(v1) \/ ~IsValid(v2) THEN Ret("panic", visited)
  ELSE IF v1.typ # v2.typ THEN Ret(differentTypes(v1, v2, eps), visited)
  ELSE
    LET guarded == CanAddr(v1) /\ CanAddr(v2) /\ hard(Kind(v1.typ))
        key == visitKey(v1, v2)
        k == Kind(v1.typ)
    IN
    IF guarded /\ key \in visited THEN Ret("true", visited)
    ELSE
      LET vis == IF guarded THEN visited \cup {key} ELSE visited IN
      CASE k = "Array" -> elementsEqual(v1, v2, eps, vis, depth, 0)
        [] k = "Slice" ->
             IF sliceHeader(v1, v2) = "elements"
               THEN elementsEqual(v1, v2, eps, vis, depth, 0)
               ELSE Ret(sliceHeader(v1, v2), vis)
        [] k = "Interface" ->
             IF IsNil(v1) \/ IsNil(v2) THEN Ret(Bool(IsNil(v1) = IsNil(v2)), vis)
             ELSE deepValueEqual(ElemOf(v1), ElemOf(v2), eps, vis, depth + 1)
        [] k = "Ptr" ->
             IF Pointer(v1) = Pointer(v2) THEN Ret("true", vis)
             ELSE deepValueEqual(ElemOf(v1), ElemOf(v2), eps, vis, depth + 1)
        [] k = "Struct" -> fieldsEqual(v1, v2, eps, vis, depth, 1)
        [] k = "Map" ->
             IF mapHeader(v1, v2) = "elements"
               THEN entriesEqual(v1, v2, eps, vis, depth, 1)
               ELSE Ret(mapHeader(v1, v2), vis)
        [] OTHER -> Ret(leafEqual(v1, v2, eps), vis)

(* Lines 186-195: exactly one operand is nil and y is the other one.       *)
nilRule(y) ==
  CASE Kind(y.typ) = "Slice" -> Bool(IsNil(y) \/ LenOf(y) = 0)
    [] Kind(y.typ) = "Ptr" -> Bool(IsNil(y))
    [] OTHER -> "fallthrough"

(* Lines 179-202.                                                          *)
deepEqual(x, y, epsilon) ==
  IF x.nil /\ y.nil THEN Ret("true", {})
  ELSE LET x1 == IF y.nil THEN y ELSE x
           y1 == IF y.nil THEN x ELSE y
       IN  IF x1.nil /\ nilRule(ValueOf(y1)) # "fallthrough"
             THEN Ret(nilRule(ValueOf(y1)), {})
             ELSE deepValueEqual(ValueOf(x1), ValueOf(y1), epsilon, {}, 0)

----------------------------------------------------------------------------
(* The assertion helpers, called by a test on a fresh mockTester           *)
(* (check_test.go, lines 29-74).                                           *)
(*   pc    "idle" before a call, "returned" after one, "crashed" when the  *)
(*         call panicked or overflowed the stack (the test binary dies)    *)
(*   fn    the helper called                                               *)
(*   x, y  the operands a and b of the call                                *)
(*   eps   the epsilon deepEqual was given                                 *)
(*   ret   deepEqual's outcome                                             *)
(*   vis   the visited map when deepEqual ended                            *)
(*   msg   the msg parts of the call                                       *)
(*   errs  the calls of t.Errorf, each the formatted message               *)

VARIABLES pc, fn, x, y, eps, msg, ret, vis, errs

vars == <<pc, fn, x, y, eps, msg, ret, vis, errs>>

(* A msg part: its text as fmt.Sprint prints it, and whether the part is   *)
(* a string.                                                               *)
StrPart(s) == [str |-> TRUE, text |-> s]

IntPart(n) == [str |-> FALSE, text |-> ToString(n)]

(* The msg arguments of the modelled calls.                                *)
Msgs ==
  << <<>>,
     <<StrPart("message")>>,
     <<StrPart("input "), IntPart(5)>>,
     <<IntPart(5), IntPart(6)>>,
     <<StrPart("")>> >>

(* The operands the calls with msg parts are made with: the first few of   *)
(* the catalogue, nil and ints.                                            *)
NumMsgOperands == 4

MsgChoice(i, j) ==
  IF i <= NumMsgOperands /\ j <= NumMsgOperands THEN 1..Len(Msgs) ELSE {1}

(* 1e-6, the epsilon of Eq and Neq: one quantum of the float grid.         *)
DefaultEps == F(FQ \div 10^6)

Init ==
  /\ pc = "idle"
  /\ fn = "none"
  /\ x = NilOperand
  /\ y = NilOperand
  /\ eps = F(0)
  /\ msg = <<>>
  /\ ret = "none"
  /\ vis = {}
  /\ errs = <<>>

(* fmt.Sprint of the first n parts: a space is added between two operands  *)
(* when neither is a string.                                               *)
RECURSIVE Sprint(_, _)
Sprint(parts, n) ==
  IF n = 0 THEN ""
  ELSE Sprint(parts, n - 1)
         \o (IF n > 1 /\ ~parts[n - 1].str /\ ~parts[n].str THEN " " ELSE "")
         \o parts[n].text

(* The verb %#v: a Go-syntax representation.  An int prints in decimal;    *)
(* every other operand is stood for by the Go expression that names it.    *)
GoSyntax(o) ==
  IF ~o.nil /\ o.dt = "int" /\ IsSmallMag(o.dv.mag)
    THEN (IF o.dv.neg THEN "-" ELSE "") \o ToString(SmallMag(o.dv.mag))
    ELSE IF o.nil THEN "<nil>" ELSE o.name

(* errorf, lines 166-175: the message t.Errorf formats.                    *)
errorf(op, p, q, parts) ==
  LET prefix == IF Len(parts) > 0 THEN Sprint(parts, Len(parts)) \o ": " ELSE ""
  IN  <<prefix \o GoSyntax(p) \o " " \o op \o " " \o GoSyntax(q)>>

(* The body shared by the helpers: report when deepEqual's boolean is      *)
(* `failOn`.                                                               *)
assertion(f, p, q, e, parts, failOn, op) ==
  \E d \in {deepEqual(p, q, e)} :
    /\ fn' = f
    /\ x' = p
    /\ y' = q
    /\ eps' = e
    /\ msg' = parts
    /\ ret' = d.r
    /\ vis' = d.vis
    /\ pc' = IF d.r \in {"true", "false"} THEN "returned" ELSE "crashed"
    /\ errs' = IF d.r = failOn THEN errorf(op, p, q, parts) ELSE <<>>

EqEps ==
  /\ pc = "idle"
  /\ \E i \in 1..NumOperands, j \in 1..NumOperands, e \in 1..Len(Epsilons) :
       \E p \in {Operands[i]}, q \in {Operands[j]}, m \in MsgChoice(i, j) :
         assertion("EqEps", p, q, Epsilons[e], Msgs[m], "false", "!=")

NeqEps ==
  /\ pc = "idle"
  /\ \E i \in 1..NumOperands, j \in 1..NumOperands, e \in 1..Len(Epsilons) :
       \E p \in {Operands[i]}, q \in {Operands[j]}, m \in MsgChoice(i, j) :
         assertion("NeqEps", p, q, Epsilons[e], Msgs[m], "true", "==")

Eq ==
  /\ pc = "idle"
  /\ \E i \in 1..NumOperands, j \in 1..NumOperands :
       \E p \in {Operands[i]}, q \in {Operands[j]}, m \in MsgChoice(i, j) :
         assertion("Eq", p, q, DefaultEps, Msgs[m], "false", "!=")

Neq ==
  /\ pc = "idle"
  /\ \E i \in 1..NumOperands, j \in 1..NumOperands :
       \E p \in {Operands[i]}, q \in {Operands[j]}, m \in MsgChoice(i, j) :
         assertion("Neq", p, q, DefaultEps, Msgs[m], "true", "==")

EqExact ==
  /\ pc = "idle"
  /\ \E i \in 1..NumOperands, j \in 1..NumOperands :
       \E p \in {Operands[i]}, q \in {Operands[j]}, m \in MsgChoice(i, j) :
         assertion("EqExact", p, q, F(0), Msgs[m], "false", "!=")

NeqExact ==
  /\ pc = "idle"
  /\ \E i \in 1..NumOperands, j \in 1..NumOperands :
       \E p \in {Operands[i]}, q \in {Operands[j]}, m \in MsgChoice(i, j) :
         assertion("NeqExact", p, q, F(0), Msgs[m], "true", "==")

(* The test goes on to its next assertion, with a new mockTester.          *)
NextAssertion ==
  /\ pc = "returned"
  /\ pc' = "idle"
  /\ fn' = "none"
  /\ x' = NilOperand
  /\ y' = NilOperand
  /\ eps' = F(0)
  /\ msg' = <<>>
  /\ ret' = "none"
  /\ vis' = {}
  /\ errs' = <<>>

Next == EqEps \/ NeqEps \/ Eq \/ Neq \/ EqExact \/ NeqExact \/ NextAssertion

Spec == Init /\ [][Next]_vars

Called == pc # "idle"

----------------------------------------------------------------------------
(* What the claims speak of.                                               *)

IsIntOp(o) == ~o.nil /\ isInteger(ValueOf(o))

IsFloatOp(o) == ~o.nil /\ isFloat(ValueOf(o))

IsComplexOp(o) == ~o.nil /\ isComplex(ValueOf(o))

TextLike(o) ==
  /\ ~o.nil
  /\ \/ Kind(o.dt) = "String"
     \/ Kind(o.dt) = "Slice" /\ Kind(Elem(o.dt)) \in {"Uint8", "Int32"}

SameTypeOf(k) == Called /\ ~x.nil /\ ~y.nil /\ x.dt = y.dt /\ Kind(x.dt) = k

AbsInt(n) == IF n < 0 THEN -n ELSE n

(* |x - y| <= e over the extended reals, NaN comparing false, with NaN,    *)
(* +Inf and -Inf each equal to itself.                                     *)
WithinEps(f, g, e) ==
  IF f.c = "nan" \/ g.c = "nan" THEN f.c = g.c
  ELSE IF f.c = "fin" /\ g.c = "fin"
    THEN e.c = "pinf" \/ (e.c = "fin" /\ AbsInt(f.n - g.n) <= e.n)
    ELSE (f.c = g.c /\ f.c \in {"pinf", "ninf"}) \/ e.c = "pinf"

(* The text a text-like operand stands for, as bytes.                      *)
CanonicalBytes(o) ==
  IF Kind(o.dt) = "String" THEN o.dv.s
  ELSE IF Kind(Elem(o.dt)) = "Uint8" THEN SliceBytes(ValueOf(o), o.dv.len)
  ELSE RuneBytes(ValueOf(o), o.dv.len)

(* C1: deepEqual returns a boolean for every pair of operands and every    *)
(* epsilon; no mismatch makes it panic.                                    *)
C1_NeverPanics == Called => ret # "panic"

(* C2: deepEqual is symmetric: deepEqual(a, b, eps) and                    *)
(* deepEqual(b, a, eps) have the same outcome.                             *)
C2_Symmetric == Called => ret = deepEqual(y, x, eps).r

(* C3: deepEqual terminates on every pair of finite value graphs, also on  *)
(* two distinct self-referential ones.                                     *)
C3_Terminates == Called => ret # "overflow"

(* C4: deepEqual is reflexive at epsilon 0: deepEqual(v, v, 0) is true.    *)
C4_Reflexive == (Called /\ x.name = y.name /\ eps = F(0)) => ret = "true"

C4_Witness ==
  /\ Called /\ x.name = y.name /\ eps = F(0) /\ ret = "true"
  /\ x.name = "complex128(NaN+Inf i)"

(* C5: two integers of any width and signedness are equal iff their        *)
(* mathematical values are equal.                                          *)
C5_IntegerEquality ==
  (Called /\ IsIntOp(x) /\ IsIntOp(y)) =>
    ret = Bool(x.dv.neg = y.dv.neg /\ x.dv.mag = y.dv.mag)

C5_Witness ==
  /\ Called /\ ret = "false"
  /\ x.name = "int64(-1)" /\ y.name = "uint64(2^64-1)"

(* C6: two floats are equal iff both are +Inf, both -Inf, both NaN, or     *)
(* |a - b| <= eps; two complex numbers iff their real parts and their      *)
(* imaginary parts are.                                                    *)
C6_FloatEq ==
  /\ (Called /\ IsFloatOp(x) /\ IsFloatOp(y)) =>
       ret = Bool(WithinEps(x.dv, y.dv, eps))
  /\ (Called /\ IsComplexOp(x) /\ IsComplexOp(y)) =>
       ret = Bool(WithinEps(x.dv.re, y.dv.re, eps) /\ WithinEps(x.dv.im, y.dv.im, eps))

C6_Witness ==
  /\ Called /\ ret = "true" /\ eps = F(1)
  /\ x.name = "float64(1)" /\ y.name = "float64(1.000001)"

(* C7: an integer against a float, in either order, is the integer's       *)
(* double against the float within eps.                                    *)
C7_IntegerFloat ==
  /\ (Called /\ IsIntOp(x) /\ IsFloatOp(y)) =>
       ret = Bool(WithinEps(Float64OfMag(x.dv.mag, x.dv.neg), y.dv, eps))
  /\ (Called /\ IsFloatOp(x) /\ IsIntOp(y)) =>
       ret = Bool(WithinEps(x.dv, Float64OfMag(y.dv.mag, y.dv.neg), eps))

C7_Witness ==
  /\ Called /\ ret = "true" /\ eps = F(0)
  /\ x.name = "float64(-4)" /\ y.name = "int(-4)"

(* C8: two text-like operands, of the same or of different types, are      *)
(* equal iff their canonical bytes are identical.                          *)
C8_TextEquality ==
  (Called /\ TextLike(x) /\ TextLike(y)) =>
    ret = Bool(CanonicalBytes(x) = CanonicalBytes(y))

(* C9: nil against nil is true; nil against anything else is true for a    *)
(* nil or empty slice and for a nil pointer, and false otherwise.          *)
C9_AbsentRule ==
  /\ (Called /\ x.nil /\ y.nil) => ret = "true"
  /\ (Called /\ x.nil # y.nil) =>
       LET o == IF x.nil THEN y ELSE x IN
       ret = Bool(\/ Kind(o.dt) = "Slice" /\ o.dv.len = 0
                  \/ Kind(o.dt) = "Ptr" /\ o.dv.p = 0)

(* C10: of two slices of one type, nil equals empty and differs from every *)
(* non-empty one; of two maps of one type, nil equals only nil, and maps   *)
(* of different sizes differ.                                              *)
C10_NilEmpty ==
  /\ (SameTypeOf("Slice") /\ x.dv.len = 0 /\ y.dv.len = 0) => ret = "true"
  /\ (SameTypeOf("Slice") /\ (x.dv.len = 0) # (y.dv.len = 0)) => ret = "false"
  /\ (SameTypeOf("Map") /\ (x.dv.p = 0) # (y.dv.p = 0)) => ret = "false"
  /\ (SameTypeOf("Map") /\ x.dv.p = 0 /\ y.dv.p = 0) => ret = "true"
  /\ (SameTypeOf("Map") /\ LenOf(ValueOf(x)) # LenOf(ValueOf(y))) => ret = "false"

C10_Witness ==
  /\ Called /\ ret = "false"
  /\ x.name = "nilMap" /\ y.name = "emptyMap"

(* Pairs of operands of one composite type that are structurally           *)
(* identical but stored apart, and pairs that differ in exactly one leaf.  *)
Twins ==
  { <<"deep", "deep'">>, <<"[]int{1,2,3}", "[]int{1,2,3}'">>, <<"m2", "m22">>,
    <<"r1", "r2">>, <<"nanMap1", "nanMap2">>, <<"M1", "M2">> }

OneLeafApart ==
  { <<"deep", "deep.m[1][2]=4">>, <<"deep", "deep.a[1]=3">>,
    <<"deep", "deep.s.a=111">>, <<"deep'", "deep.m[1][2]=4">>,
    <<"[]int{1,2,3}", "[]int{1,2,4}">>, <<"m2", "m3">>, <<"m22", "m3">>,
    <<"[2]int{1,2}", "[2]int{1,3}">>, <<"S1{0}", "S1{111}">>,
    <<"aaa{u,aer{1}}", "aaa{u,aer{2}}">>, <<"r1", "r3">> }

Paired(S) == <<x.name, y.name>> \in S \/ <<y.name, x.name>> \in S

(* C11: at epsilon 0 two structurally identical nested composites of one   *)
(* type compare equal, and two that differ in one leaf, at any depth,      *)
(* compare unequal.                                                        *)
C11_DeepRecursion ==
  /\ (Called /\ eps = F(0) /\ Paired(Twins)) => ret = "true"
  /\ (Called /\ eps = F(0) /\ Paired(OneLeafApart)) => ret = "false"

EqFamily == {"Eq", "EqEps", "EqExact"}

NeqFamily == {"Neq", "NeqEps", "NeqExact"}

(* C12: an equality assertion calls Errorf once iff deepEqual is false, an *)
(* inequality assertion once iff it is true, and the call ends in no       *)
(* panic or abort; Eq/Neq use epsilon 1e-6 and EqExact/NeqExact epsilon 0. *)
C12_Reporting ==
  /\ Called => ret \in {"true", "false"} /\ pc = "returned"
  /\ (Called /\ fn \in EqFamily) => Len(errs) = (IF ret = "false" THEN 1 ELSE 0)
  /\ (Called /\ fn \in NeqFamily) => Len(errs) = (IF ret = "true" THEN 1 ELSE 0)
  /\ (Called /\ fn \in {"Eq", "Neq"}) => eps = DefaultEps
  /\ (Called /\ fn \in {"EqExact", "NeqExact"}) => eps = F(0)

(* The prefix parts one after the other, nothing in between.               *)
RECURSIVE Concatenated(_, _)
Concatenated(parts, n) ==
  IF n = 0 THEN "" ELSE Concatenated(parts, n - 1) \o parts[n].text

(* C13: the message is the concatenated prefix parts, ": ", and            *)
(* "<repr of a> <op> <repr of b>" with op "!=" for an equality assertion   *)
(* and "==" for an inequality assertion; without parts there is no prefix. *)
C13_MessageFormat ==
  (Called /\ errs # <<>>) =>
    errs[1] = (IF msg = <<>> THEN "" ELSE Concatenated(msg, Len(msg)) \o ": ")
                \o GoSyntax(x) \o " "
                \o (IF fn \in EqFamily THEN "!=" ELSE "==")
                \o " " \o GoSyntax(y)

(* What a non-nil pointer operand points at, as an operand of its own.     *)
Target(o) == Op(o.name, Elem(o.dt), Mem[o.dv.p].val)

(* C14: of two pointers of one type, those with the same target address    *)
(* are equal, two distinct non-nil ones are equal iff their targets are    *)
(* deepEqual, and a nil one differs from every non-nil one.                *)
C14_PointerRule ==
  /\ (SameTypeOf("Ptr") /\ x.dv.p = y.dv.p) => ret = "true"
  /\ (SameTypeOf("Ptr") /\ x.dv.p # y.dv.p /\ x.dv.p # 0 /\ y.dv.p # 0) =>
       ret = deepEqual(Target(x), Target(y), eps).r
  /\ (SameTypeOf("Ptr") /\ (x.dv.p = 0) # (y.dv.p = 0)) => ret = "false"

(* A coercion rule of lines 206-248 covers the two operands.               *)
Coercible ==
  \/ TextLike(x) /\ TextLike(y)
  \/ IsIntOp(x) /\ IsIntOp(y)
  \/ IsFloatOp(x) /\ IsFloatOp(y)
  \/ IsComplexOp(x) /\ IsComplexOp(y)
  \/ IsIntOp(x) /\ IsFloatOp(y)
  \/ IsFloatOp(x) /\ IsIntOp(y)

(* C15: two operands of different concrete types that no coercion rule     *)
(* covers are unequal.                                                     *)
C15_TypeReconciliation ==
  (Called /\ ~x.nil /\ ~y.nil /\ x.dt # y.dt /\ ~Coercible) => ret = "false"

(* C16: every entry <<a1, a2, typ>> of the visited set has a1 <= a2, a     *)
(* pair met as (A, B) and as (B, A) makes one entry, and a call starts     *)
(* with the empty set: nothing is in it when no addressable reference was  *)
(* compared, and nothing before a call.                                    *)
C16_VisitedCanonical ==
  /\ \A k \in vis : k[1] <= k[2]
  /\ (Called /\ x.name = "n4" /\ y.name = "n5") =>
       ret = "true" /\ Cardinality(vis) = 1
  /\ (Called /\ (x.nil \/ ~hard(Kind(x.dt)))
             /\ (y.nil \/ ~hard(Kind(y.dt)))
             /\ (x.nil \/ y.nil \/ x.dt # y.dt)) => vis = {}
  /\ ~Called => vis = {}

C16_Witness ==
  /\ Called /\ ret = "true"
  /\ x.name = "r2" /\ y.name = "r1"
  /\ vis = {<<80 + 1, 82 + 1, "*Node">>}

(* No float or complex value can occur in a value of type t: t and the     *)
(* types it is built from are neither float, complex nor interface.        *)
RECURSIVE FloatFreeType(_, _)
FloatFreeType(t, seen) ==
  IF t \in seen THEN TRUE
  ELSE CASE Kind(t) \in {"Float32", "Float64", "Complex64", "Complex128", "Interface"} ->
              FALSE
         [] Kind(t) \in {"Array", "Slice", "Ptr"} -> FloatFreeType(Elem(t), seen \cup {t})
         [] Kind(t) = "Map" ->
              FloatFreeType(Key(t), seen \cup {t}) /\ FloatFreeType(Elem(t), seen \cup {t})
         [] Kind(t) = "Struct" ->
              \A i \in 1..Len(Fields(t)) : FloatFreeType(Fields(t)[i], seen \cup {t})
         [] OTHER -> TRUE

FloatFree(o) == o.nil \/ FloatFreeType(o.dt, {})

NonNegative(e) == FloatLE(F(0), e)

(* C17: the verdict is monotone in epsilon: what is equal at an epsilon    *)
(* >= 0 is equal at every larger one; and operands without float and       *)
(* complex values have the same outcome at every epsilon >= 0.             *)
C17_EpsilonMonotone ==
  /\ (Called /\ NonNegative(eps) /\ ret = "true") =>
       \A i \in 1..Len(Epsilons) :
         FloatLE(eps, Epsilons[i]) => deepEqual(x, y, Epsilons[i]).r = "true"
  /\ (Called /\ NonNegative(eps) /\ FloatFree(x) /\ FloatFree(y)) =>
       ret = deepEqual(x, y, F(0)).r

C17_Witness ==
  /\ Called /\ ret = "true" /\ eps = F(1)
  /\ x.name = "float64(1.000001)" /\ y.name = "float64(1)"

====
